---- MODULE Spec2Model ----
(***************************************************************************)
(* Model of greentogo/core/models.py: the box accounting of Subscription,  *)
(* Location, LocationTag and LocationStockCount, and the save hooks of     *)
(* Location, Plan, Subscription and CorporateCode.                         *)
(*                                                                         *)
(* Database tables are sets of rows or functions from primary key to row.  *)
(* A request (one web handler running a model method) is a process with a  *)
(* program counter; one step of a request is one ORM statement, which is   *)
(* the unit the database serialises.                                       *)
(***************************************************************************)
EXTENDS Integers, FiniteSets, Sequences, TLC

\* ------------------------------------------------------------------ bounds
MaxTime == 4           \* rows the clock can stamp (created_at values 1..MaxTime)
MaxBoxes == 2          \* largest Plan.number_of_boxes
MaxN == 2              \* largest number_of_boxes argument of tag_location

\* The physical counts set_stock is called with.
Counts == {0, 1}

None == "None"

\* Location.CHECKIN, Location.CHECKOUT, Location.SERVICE_CHOICES
CHECKIN == "IN"
CHECKOUT == "OUT"
SERVICE_CHOICES == {CHECKIN, CHECKOUT}

\* Plan primary keys and payment-provider plan ids in the order they are
\* handed out; the first plan is present at the start.
PlanPks == <<"plan1", "plan2", "plan3">>
PlanStripeIds == <<"basic-1", "plan-2", "plan-3">>
PlanIds == {PlanPks[1]}

\* The names and the amounts in cents plans are given.
PlanNames == {"Basic", "Plus"}
Amounts == {1000, 2500}

\* The payment provider's subscription objects handed to
\* update_from_stripe_sub: id, status and current_period_end (a time, counted
\* in days).
StripeSubs ==
    [id : {"sub_A", "sub_B"}, status : {"active", "past_due"},
     current_period_end : {10, 40}]

\* timedelta(days=3) of update_from_stripe_sub
GraceDays == 3

\* CorporateCode primary keys in the order they are handed out, and the
\* values given to the fields company_name, code and amount_off (dollars).
CorporateCodePks == <<"cc1", "cc2">>
CompanyNames == {"Acme", "Bolt"}
CodeValues == {"ACME", "BOLT"}
AmountsOff == {25, 50}

\* The CorporateCode instance a handler holds in memory.
CorporateCodeInstIds == {"c"}

\* The Plan instance a handler holds in memory.
PlanInstIds == {"p"}

\* Primary keys of the Subscription rows present at the start, and the
\* request handlers (worker processes) that run concurrently.
SubIds == {"sub1", "sub2"}
ReqIds == {"req1", "req2"}

\* Location primary keys in the order the table hands them out; the first
\* two rows are present at the start.
LocPks == <<"loc1", "loc2", "loc3">>
LocIds == {LocPks[1], LocPks[2]}

\* The short codes shortuuid.uuid()[:6] can draw, and the codes of the rows
\* present at the start.
Codes == {"A", "B", "C"}
InitialCode == [l \in LocIds |-> IF l = LocPks[1] THEN "A" ELSE "B"]

\* Location instances held in memory by concurrent handlers.
LocInstIds == {"x", "y"}

VARIABLES
    plans,          \* Plan table: pk -> row
    subscriptions,  \* Subscription table: pk -> row
    locations,      \* Location table: pk -> row
    tags,           \* LocationTag table: set of rows
    stock_counts,   \* LocationStockCount table: set of rows
    now,            \* the clock auto_now_add reads
    next_pk,        \* next primary key of the tag and stock count tables
    requests,       \* request handlers calling can_tag_location / tag_location
    estimate,       \* what the last get_estimated_stock call returned
    loc_inst,       \* Location instances in memory, and where each is in save()
    stripe_plans,   \* the payment provider's plans: id -> [name, amount]
    plan_inst,      \* Plan instances in memory
    plan_call,      \* the last Plan.save / Plan.delete call and what it raised
    sub_call,       \* the last update_from_stripe_sub call and what it raised
    corporate_codes,  \* CorporateCode table: pk -> row
    stripe_coupons,   \* the payment provider's coupons: id -> coupon
    cc_inst,          \* CorporateCode instances in memory
    cc_call           \* the last CorporateCode.save call and what it raised

boxVars == <<plans, subscriptions, locations, tags, stock_counts, now, next_pk,
             requests, estimate>>

planVars == <<stripe_plans, plan_inst, plan_call>>

ccVars == <<corporate_codes, stripe_coupons, cc_inst, cc_call>>

\* ---------------------------------------------------------- Subscription

\* Subscription.number_of_boxes (property)
number_of_boxes(s) ==
    IF subscriptions[s].plan # None
    THEN plans[subscriptions[s].plan].number_of_boxes
    ELSE 0

\* The Case(...) expression of available_boxes, for one joined tag row.
CaseValue(t) ==
    IF locations[t.location].service = CHECKOUT THEN 1
    ELSE IF locations[t.location].service = CHECKIN THEN -1
    ELSE 1

\* Sum(Case(...)) over a set of tag rows.
RECURSIVE SumCase(_)
SumCase(T) ==
    IF T = {} THEN 0
    ELSE LET t == CHOOSE x \in T : TRUE
         IN CaseValue(t) + SumCase(T \ {t})

\* Mutant: the aggregate without filter(subscription=self).
MutAggregateAllSubscriptions(s) ==
    IF tags = {} THEN <<>> ELSE <<SumCase(tags)>>

\* LocationTag.objects.filter(subscription=self).aggregate(...)['checked_out']:
\* <<sum>>, or <<>> for the None that Sum gives over no rows.
AggregateCheckedOut(s) ==
    LET T == {t \in tags : t.subscription = s}
    IN IF T = {} THEN <<>> ELSE <<SumCase(T)>>

\* Subscription.available_boxes (property)
available_boxes(s) ==
    LET boxes_checked_out == AggregateCheckedOut(s)
    IN number_of_boxes(s)
         - (IF boxes_checked_out = <<>> THEN 0 ELSE boxes_checked_out[1])

\* Subscription.can_checkout
can_checkout(s, n) == available_boxes(s) >= n

\* Mutant: the comparison without the boxes being returned.
MutCanCheckinIgnoresN(s, n) == available_boxes(s) <= number_of_boxes(s)

\* Subscription.can_checkin
can_checkin(s, n) == available_boxes(s) + n <= number_of_boxes(s)

\* Subscription.can_tag_location
can_tag_location(s, l, n) ==
    IF locations[l].service = CHECKIN
    THEN can_checkin(s, n)
    ELSE can_checkout(s, n)

NoEstimate == [location |-> None, value |-> 0]

IdleRequest ==
    [pc |-> "idle", subscription |-> None, location |-> None, n |-> 0, left |-> 0]

\* The i-th LocationTag.objects.create(subscription=self, location=location)
\* from now: each row is stamped with the clock as it is inserted
\* (auto_now_add), and the clock has moved on before the next row is stamped.
NewTag(s, l, i) ==
    [id |-> next_pk.tag + i, subscription |-> s, location |-> l, created_at |-> now + i]

\* Mutant: update_or_create instead of create, the new row taking the place
\* of the subscription's earlier tags at the location.
MutTagsReplaced(s, l, n) ==
    {t \in tags : ~(t.subscription = s /\ t.location = l)}
        \cup {NewTag(s, l, i) : i \in 0..(n - 1)}

\* The LocationTag table after tag_location has created its n rows.
TagsAfterTagging(s, l, n) == tags \cup {NewTag(s, l, i) : i \in 0..(n - 1)}

\* Subscription.tag_location, the whole call.
tag_location(s, l, n) ==
    /\ s \in DOMAIN subscriptions
    /\ l \in DOMAIN locations
    /\ now + n - 1 <= MaxTime
    /\ tags' = TagsAfterTagging(s, l, n)
    /\ now' = now + n
    /\ next_pk' = [next_pk EXCEPT !.tag = @ + n]
    /\ estimate' = NoEstimate
    /\ UNCHANGED <<plans, subscriptions, locations, stock_counts, requests, loc_inst, planVars, sub_call, ccVars>>

\* tag_location called by a handler only after can_tag_location returned
\* True, with nothing running in between.
CheckedTagLocation(s, l, n) ==
    /\ s \in DOMAIN subscriptions
    /\ l \in DOMAIN locations
    /\ can_tag_location(s, l, n)
    /\ tag_location(s, l, n)

\* ------------------------------------------- concurrent request handlers

\* A handler evaluates can_tag_location: on True it goes on to tag_location,
\* on False it returns without tagging.
CanTagLocation(r, s, l, n) ==
    /\ requests[r].pc = "idle"
    /\ s \in DOMAIN subscriptions
    /\ l \in DOMAIN locations
    /\ now <= MaxTime
    /\ IF can_tag_location(s, l, n)
       THEN requests' = [requests EXCEPT ![r] =
                [pc |-> "tag", subscription |-> s, location |-> l, n |-> n, left |-> n]]
       ELSE requests' = requests
    /\ UNCHANGED <<plans, subscriptions, locations, tags, stock_counts, now, next_pk, estimate, loc_inst, planVars, sub_call, ccVars>>

\* Mutant: the guard evaluated again, atomically with the INSERT.
MutTagInsertRechecked(r) ==
    IF can_tag_location(requests[r].subscription, requests[r].location, 1)
    THEN {NewTag(requests[r].subscription, requests[r].location, 0)}
    ELSE {}

\* What one pass of the loop of tag_location inserts for handler r.
TagInsert(r) == {NewTag(requests[r].subscription, requests[r].location, 0)}

\* One pass of the loop of tag_location in handler r: one INSERT.
TagLocationCreate(r) ==
    /\ requests[r].pc = "tag"
    /\ requests[r].left > 0
    /\ now <= MaxTime
    /\ tags' = tags \cup TagInsert(r)
    /\ now' = now + 1
    /\ next_pk' = [next_pk EXCEPT !.tag = @ + 1]
    /\ requests' = [requests EXCEPT ![r].left = @ - 1,
                                    ![r].pc = IF requests[r].left = 1 THEN "done" ELSE "tag"]
    /\ UNCHANGED <<plans, subscriptions, locations, stock_counts, estimate, loc_inst, planVars, sub_call, ccVars>>

\* tag_location returns its tags; the worker takes the next request.
Return(r) ==
    /\ requests[r].pc = "done"
    /\ requests' = [requests EXCEPT ![r] = IdleRequest]
    /\ UNCHANGED <<plans, subscriptions, locations, tags, stock_counts, now, next_pk, estimate, loc_inst, planVars, sub_call, ccVars>>

\* -------------------------------------------------------------- Location

StockCountsAt(l) == {c \in stock_counts : c.location = l}

\* LocationStockCount.objects.filter(location=self).order_by('-created_at')[0]
LastCount(l) ==
    CHOOSE c \in StockCountsAt(l) :
        \A d \in StockCountsAt(l) : d.created_at <= c.created_at

NewStockCount(l, count) ==
    [id |-> next_pk.stock_count, location |-> l, created_at |-> now, count |-> count]

\* Mutant: set_stock updating the location's snapshot in place.
MutStockCountOverwritten(l, count) ==
    (stock_counts \ StockCountsAt(l)) \cup {NewStockCount(l, count)}

\* The table after set_stock's LocationStockCount.objects.create.
StockCountsAfterSet(l, count) == stock_counts \cup {NewStockCount(l, count)}

\* Location.set_stock
set_stock(l, count) ==
    /\ l \in DOMAIN locations
    /\ now <= MaxTime
    /\ stock_counts' = StockCountsAfterSet(l, count)
    /\ now' = now + 1
    /\ next_pk' = [next_pk EXCEPT !.stock_count = @ + 1]
    /\ estimate' = NoEstimate
    /\ UNCHANGED <<plans, subscriptions, locations, tags, requests, loc_inst, planVars, sub_call, ccVars>>

\* Mutant: the tag query without filter(location=self).
MutBoxesMovedAnyLocation(l, last_count) ==
    Cardinality({t \in tags : t.created_at > last_count.created_at})

\* LocationTag.objects.filter(location=self, created_at__gt=...).count()
BoxesMoved(l, last_count) ==
    Cardinality({t \in tags : t.location = l /\ t.created_at > last_count.created_at})

\* The return value of get_estimated_stock, given the count it anchors on.
EstimatedStock(l, last_count) ==
    IF locations[l].service = CHECKOUT
    THEN last_count.count - BoxesMoved(l, last_count)
    ELSE last_count.count + BoxesMoved(l, last_count)

\* Mutant: the zero baseline created on every call.
MutBaselineAlways(l) == {NewStockCount(l, 0)}

\* The except IndexError branch of get_estimated_stock: the zero-count row
\* created when the location has no stock count, and nothing otherwise.
LazyBaseline(l) ==
    IF StockCountsAt(l) = {} THEN {NewStockCount(l, 0)} ELSE {}

\* Location.get_estimated_stock
get_estimated_stock(l) ==
    /\ l \in DOMAIN locations
    /\ LazyBaseline(l) # {} => now <= MaxTime
    /\ stock_counts' = stock_counts \cup LazyBaseline(l)
    /\ now' = now + Cardinality(LazyBaseline(l))
    /\ next_pk' = [next_pk EXCEPT !.stock_count = @ + Cardinality(LazyBaseline(l))]
    /\ UNCHANGED <<plans, subscriptions, locations, tags, requests, loc_inst, planVars, sub_call, ccVars>>
    /\ estimate' = [location |-> l, value |-> EstimatedStock(l, LastCount(l))']

\* Rows that go with a deleted Location: LocationTag.location and
\* LocationStockCount.location are foreign keys with on_delete=CASCADE.
TagsLeftByLocationDelete(l) == {t \in tags : t.location # l}

\* Location.delete (inherited): the row and everything that cascades from it.
DeleteLocation(l) ==
    /\ l \in DOMAIN locations
    /\ locations' = [k \in DOMAIN locations \ {l} |-> locations[k]]
    /\ tags' = TagsLeftByLocationDelete(l)
    /\ stock_counts' = {c \in stock_counts : c.location # l}
    /\ estimate' = NoEstimate
    /\ UNCHANGED <<plans, subscriptions, now, next_pk, requests, loc_inst, planVars, sub_call, ccVars>>

\* Subscription.delete (inherited): LocationTag.subscription cascades.
DeleteSubscription(s) ==
    /\ s \in DOMAIN subscriptions
    /\ subscriptions' = [k \in DOMAIN subscriptions \ {s} |-> subscriptions[k]]
    /\ tags' = {t \in tags : t.subscription # s}
    /\ estimate' = NoEstimate
    /\ UNCHANGED <<plans, locations, stock_counts, now, next_pk, requests, loc_inst, planVars, sub_call, ccVars>>

\* A stored Location is given another service and saved, the whole of it in
\* sequential use: the row has a code, so _set_code leaves it alone, and
\* super().save() writes the row. The tags at the location stay as they are;
\* from now on the aggregate of available_boxes joins them to the new service.
SaveLocationService(l, service) ==
    /\ l \in DOMAIN locations
    /\ service \in SERVICE_CHOICES
    /\ service # locations[l].service
    /\ locations' = [locations EXCEPT ![l].service = service]
    /\ estimate' = NoEstimate
    /\ UNCHANGED <<plans, subscriptions, tags, stock_counts, now, next_pk, requests, loc_inst, planVars, sub_call, ccVars>>

\* --------------------------------------------------------- Location.save

NoInstance ==
    [pc |-> "none", pk |-> None, code |-> "", service |-> CHECKIN,
     generated |-> FALSE, error |-> ""]

\* Location(code=..., service=...): an instance not yet saved. The code is
\* blank unless the caller gives one.
NewLocation(i, code, service) ==
    /\ loc_inst[i].pc \in {"none", "ready"}
    /\ loc_inst' = [loc_inst EXCEPT ![i] =
            [pc |-> "ready", pk |-> None, code |-> code, service |-> service,
             generated |-> FALSE, error |-> ""]]
    /\ UNCHANGED <<boxVars, planVars, sub_call, ccVars>>

\* Location.objects.get(pk=l): an instance of a stored row.
LoadLocation(i, l) ==
    /\ loc_inst[i].pc \in {"none", "ready"}
    /\ l \in DOMAIN locations
    /\ loc_inst' = [loc_inst EXCEPT ![i] =
            [pc |-> "ready", pk |-> l, code |-> locations[l].code,
             service |-> locations[l].service, generated |-> FALSE, error |-> ""]]
    /\ UNCHANGED <<boxVars, planVars, sub_call, ccVars>>

\* location.code = code on an instance of a stored row (the field is
\* editable), before it is saved again.
AssignCode(i, code) ==
    /\ loc_inst[i].pc = "ready"
    /\ loc_inst[i].pk # None
    /\ loc_inst' = [loc_inst EXCEPT ![i].code = code, ![i].error = ""]
    /\ UNCHANGED <<boxVars, planVars, sub_call, ccVars>>

\* Location.save is entered: it calls _set_code first.
LocationSave(i) ==
    /\ loc_inst[i].pc = "ready"
    /\ loc_inst' = [loc_inst EXCEPT ![i].pc = "set_code", ![i].error = "",
                                    ![i].generated = FALSE]
    /\ UNCHANGED <<boxVars, planVars, sub_call, ccVars>>

\* Location.objects.filter(code=code).count() > 0
CodeInUse(code) == \E l \in DOMAIN locations : locations[l].code = code

\* Location._set_code (force=False): nothing when the instance has a code;
\* otherwise one draw of shortuuid.uuid()[:6] and the query that decides
\* whether the loop draws again.
SetCode(i, code) ==
    /\ loc_inst[i].pc = "set_code"
    /\ IF loc_inst[i].code # ""
       THEN loc_inst' = [loc_inst EXCEPT ![i].pc = "super_save"]
       ELSE IF CodeInUse(code)
            THEN loc_inst' = loc_inst
            ELSE loc_inst' = [loc_inst EXCEPT ![i].pc = "super_save",
                                              ![i].code = code,
                                              ![i].generated = TRUE]
    /\ UNCHANGED <<boxVars, planVars, sub_call, ccVars>>

\* Mutant: the code column without unique=True.
MutCodeNotUnique(code, pk) == FALSE

\* code = models.CharField(max_length=6, unique=True): the constraint the
\* database checks on INSERT and UPDATE of the row pk.
CodeTaken(code, pk) ==
    \E l \in DOMAIN locations : l # pk /\ locations[l].code = code

NextLocPk == LocPks[Cardinality(DOMAIN locations) + 1]

\* super().save() of Location.save: UPDATE of the instance's row, INSERT of
\* a new row when the instance has no pk; IntegrityError, and nothing
\* stored, when the code is another row's. (_geocode, which runs before it,
\* only fills latitude and longitude from the geocoding service.)
SuperSave(i) ==
    /\ loc_inst[i].pc = "super_save"
    /\ IF CodeTaken(loc_inst[i].code, loc_inst[i].pk)
       THEN /\ loc_inst' = [loc_inst EXCEPT ![i].pc = "ready",
                                            ![i].error = "IntegrityError"]
            /\ UNCHANGED locations
       ELSE LET pk == IF loc_inst[i].pk = None THEN NextLocPk ELSE loc_inst[i].pk
                row == [code |-> loc_inst[i].code, service |-> loc_inst[i].service]
            IN /\ loc_inst[i].pk = None => Cardinality(DOMAIN locations) < Len(LocPks)
               /\ locations' = [l \in DOMAIN locations \cup {pk} |->
                                   IF l = pk THEN row ELSE locations[l]]
               /\ loc_inst' = [loc_inst EXCEPT ![i].pc = "ready", ![i].pk = pk]
    /\ UNCHANGED <<plans, subscriptions, tags, stock_counts, now, next_pk,
                   requests, estimate, planVars, sub_call, ccVars>>

\* ------------------------------------------- Subscription and the provider

NoSubCall ==
    [op |-> "none", subscription |-> None, stripe_id |-> None,
     status |-> "", current_period_end |-> 0, force |-> FALSE, raised |-> ""]

\* The truth value Python gives a CharField value: None and "" are false.
Truthy(x) == x # None /\ x # ""

\* datetime.fromtimestamp: the naive local time of a timestamp.
fromtimestamp(t) == [naive |-> t]

\* timezone.make_aware(..., is_dst=False): the time a naive local time names,
\* in the zone fromtimestamp used. A change of daylight saving time between
\* the two is an hour, below the day this model counts in.
make_aware(d) == d.naive

\* Mutant: ends_at without the three days of grace.
MutEndsAtPeriodEnd(stripe_subscription) ==
    <<make_aware(fromtimestamp(stripe_subscription.current_period_end))>>

\* ends_at of update_from_stripe_sub; <<t>> is the time t, <<>> is None.
EndsAt(stripe_subscription) ==
    <<make_aware([naive |-> fromtimestamp(stripe_subscription.current_period_end).naive
                              + GraceDays])>>

\* Subscription.update_from_stripe_sub, on an instance of the stored row s.
update_from_stripe_sub(s, stripe_subscription, force) ==
    /\ s \in DOMAIN subscriptions
    /\ IF Truthy(subscriptions[s].stripe_id) /\ ~force
       THEN /\ sub_call' = [op |-> "update_from_stripe_sub", subscription |-> s,
                            stripe_id |-> stripe_subscription.id,
                            status |-> stripe_subscription.status,
                            current_period_end |-> stripe_subscription.current_period_end,
                            force |-> force,
                            raised |-> "SubscriptionUpdateException"]
            /\ UNCHANGED subscriptions
       ELSE /\ sub_call' = [op |-> "update_from_stripe_sub", subscription |-> s,
                            stripe_id |-> stripe_subscription.id,
                            status |-> stripe_subscription.status,
                            current_period_end |-> stripe_subscription.current_period_end,
                            force |-> force,
                            raised |-> ""]
            /\ subscriptions' = [subscriptions EXCEPT
                    ![s].stripe_id = stripe_subscription.id,
                    ![s].stripe_status = stripe_subscription.status,
                    ![s].ends_at = EndsAt(stripe_subscription)]
    /\ UNCHANGED <<plans, locations, tags, stock_counts, now, next_pk, requests,
                   estimate, loc_inst, planVars, ccVars>>

\* ------------------------------------------------------------------ Plan

othersOfPlan == <<subscriptions, locations, tags, stock_counts, now, next_pk,
                  requests, estimate, loc_inst, sub_call, ccVars>>

NoLoadedValues == [name |-> "", amount |-> 0]

NoPlanInstance ==
    [state |-> "none", pk |-> None, name |-> "", amount |-> 0, available |-> TRUE,
     number_of_boxes |-> 0, stripe_id |-> None,
     has_loaded_values |-> FALSE, loaded_values |-> NoLoadedValues]

NoPlanCall == [op |-> "none", inst |-> None, raised |-> ""]

\* Plan(name=..., amount=..., number_of_boxes=...): an instance not yet
\* saved; it has no _loaded_values.
NewPlan(i, name, amount) ==
    /\ plan_inst' = [plan_inst EXCEPT ![i] =
            [state |-> "ready", pk |-> None, name |-> name, amount |-> amount,
             available |-> TRUE, number_of_boxes |-> MaxBoxes, stripe_id |-> None,
             has_loaded_values |-> FALSE, loaded_values |-> NoLoadedValues]]
    /\ plan_call' = NoPlanCall
    /\ UNCHANGED <<plans, stripe_plans, othersOfPlan>>

\* Plan.from_db: the instance of a stored row, with _loaded_values.
from_db(i, p) ==
    /\ p \in DOMAIN plans
    /\ plan_inst' = [plan_inst EXCEPT ![i] =
            [state |-> "ready", pk |-> p, name |-> plans[p].name,
             amount |-> plans[p].amount, available |-> plans[p].available,
             number_of_boxes |-> plans[p].number_of_boxes,
             stripe_id |-> plans[p].stripe_id,
             has_loaded_values |-> TRUE,
             loaded_values |-> [name |-> plans[p].name, amount |-> plans[p].amount]]]
    /\ plan_call' = NoPlanCall
    /\ UNCHANGED <<plans, stripe_plans, othersOfPlan>>

\* plan.name = name; plan.amount = amount, on an instance in memory.
AssignPlan(i, name, amount) ==
    /\ plan_inst[i].state = "ready"
    /\ plan_inst' = [plan_inst EXCEPT ![i].name = name, ![i].amount = amount]
    /\ plan_call' = NoPlanCall
    /\ UNCHANGED <<plans, stripe_plans, othersOfPlan>>

\* Mutant: the loaded value compared with itself.
MutIsChangedNever(inst, field_name) == FALSE

\* Plan.is_changed
is_changed(inst, field_name) ==
    IF ~inst.has_loaded_values
    THEN FALSE
    ELSE ~(inst.loaded_values[field_name] = inst[field_name])

\* Plan._generate_stripe_id: slugify(name) + uuid, drawn until no stored
\* plan has it; modelled as the next id never handed out.
generate_stripe_id == PlanStripeIds[Cardinality(DOMAIN stripe_plans) + 1]

\* name and stripe_id are unique=True: the constraint checked by super().save().
PlanRowClash(inst, stripe_id) ==
    \E p \in DOMAIN plans :
        /\ p # inst.pk
        /\ (plans[p].name = inst.name \/ plans[p].stripe_id = stripe_id)

\* Plan.save on the instance i, inst being its fields when save is entered;
\* op is the method the caller called.
PlanSaveOf(i, inst, op) ==
    IF inst.stripe_id # None /\ is_changed(inst, "amount")
    THEN /\ plan_call' = [op |-> op, inst |-> i, raised |-> "CannotChangeException"]
         /\ plan_inst' = [plan_inst EXCEPT ![i] = inst]
         /\ UNCHANGED <<plans, stripe_plans>>
    ELSE LET created == inst.stripe_id = None
             sid == IF created THEN generate_stripe_id ELSE inst.stripe_id
             pk == IF inst.pk = None
                   THEN PlanPks[Cardinality(DOMAIN plans) + 1]
                   ELSE inst.pk
             row == [name |-> inst.name, amount |-> inst.amount,
                     available |-> inst.available,
                     number_of_boxes |-> inst.number_of_boxes, stripe_id |-> sid]
         IN /\ created => Cardinality(DOMAIN stripe_plans) < Len(PlanStripeIds)
            /\ inst.pk = None => Cardinality(DOMAIN plans) < Len(PlanPks)
            /\ stripe_plans' =
                  IF created
                  THEN [x \in DOMAIN stripe_plans \cup {sid} |->
                          IF x = sid THEN [name |-> inst.name, amount |-> inst.amount]
                          ELSE stripe_plans[x]]
                  ELSE IF is_changed(inst, "name")
                       THEN [stripe_plans EXCEPT ![sid].name = inst.name]
                       ELSE stripe_plans
            /\ IF PlanRowClash(inst, sid)
               THEN /\ plan_call' = [op |-> op, inst |-> i, raised |-> "IntegrityError"]
                    /\ plan_inst' = [plan_inst EXCEPT ![i] = [inst EXCEPT !.stripe_id = sid]]
                    /\ UNCHANGED plans
               ELSE /\ plan_call' = [op |-> op, inst |-> i, raised |-> ""]
                    /\ plan_inst' = [plan_inst EXCEPT ![i] =
                                        [inst EXCEPT !.stripe_id = sid, !.pk = pk]]
                    /\ plans' = [x \in DOMAIN plans \cup {pk} |->
                                    IF x = pk THEN row ELSE plans[x]]

\* Plan.save
PlanSave(i) ==
    /\ plan_inst[i].state = "ready"
    /\ PlanSaveOf(i, plan_inst[i], "save")
    /\ UNCHANGED othersOfPlan

\* Plan.delete: available = False, then save().
PlanDelete(i) ==
    /\ plan_inst[i].state = "ready"
    /\ PlanSaveOf(i, [plan_inst[i] EXCEPT !.available = FALSE], "delete")
    /\ UNCHANGED othersOfPlan

\* --------------------------------------------------------- CorporateCode

othersOfCorporateCode == <<boxVars, loc_inst, planVars, sub_call>>

NoCorporateCode ==
    [state |-> "none", pk |-> None, company_name |-> "", code |-> "", amount_off |-> 0]

NoCorporateCodeCall == [op |-> "none", inst |-> None, raised |-> ""]

\* CorporateCode(company_name=..., code=..., amount_off=...): not yet saved.
NewCorporateCode(i, company_name, code, amount_off) ==
    /\ cc_inst' = [cc_inst EXCEPT ![i] =
            [state |-> "ready", pk |-> None, company_name |-> company_name,
             code |-> code, amount_off |-> amount_off]]
    /\ cc_call' = NoCorporateCodeCall
    /\ UNCHANGED <<corporate_codes, stripe_coupons, othersOfCorporateCode>>

\* CorporateCode.objects.get(pk=pk): the instance of a stored row.
LoadCorporateCode(i, pk) ==
    /\ pk \in DOMAIN corporate_codes
    /\ cc_inst' = [cc_inst EXCEPT ![i] =
            [state |-> "ready", pk |-> pk,
             company_name |-> corporate_codes[pk].company_name,
             code |-> corporate_codes[pk].code,
             amount_off |-> corporate_codes[pk].amount_off]]
    /\ cc_call' = NoCorporateCodeCall
    /\ UNCHANGED <<corporate_codes, stripe_coupons, othersOfCorporateCode>>

\* Fields assigned on an instance in memory, as an edit form does.
AssignCorporateCode(i, company_name, code, amount_off) ==
    /\ cc_inst[i].state = "ready"
    /\ cc_inst' = [cc_inst EXCEPT ![i].company_name = company_name,
                                  ![i].code = code,
                                  ![i].amount_off = amount_off]
    /\ cc_call' = NoCorporateCodeCall
    /\ UNCHANGED <<corporate_codes, stripe_coupons, othersOfCorporateCode>>

\* Mutant: save without its early return.
MutNeverStored(inst) == FALSE

\* self.pk is not None
AlreadyStored(inst) == inst.pk # None

\* stripe.Coupon.create(id=self.code, duration="once",
\* amount_off=int(self.amount_off * 100), currency="USD", ...)
Coupon(inst) == [amount_off |-> inst.amount_off * 100, currency |-> "USD"]

\* CorporateCode.save. The provider refuses a coupon whose id it already
\* has; code is unique=True in the table.
CorporateCodeSave(i) ==
    /\ cc_inst[i].state = "ready"
    /\ LET inst == cc_inst[i]
           pk == IF inst.pk = None
                 THEN CorporateCodePks[Cardinality(DOMAIN corporate_codes) + 1]
                 ELSE inst.pk
           row == [company_name |-> inst.company_name, code |-> inst.code,
                   amount_off |-> inst.amount_off]
       IN IF AlreadyStored(inst)
          THEN /\ cc_call' = [op |-> "save", inst |-> i, raised |-> ""]
               /\ UNCHANGED <<corporate_codes, stripe_coupons, cc_inst>>
          ELSE IF inst.code \in DOMAIN stripe_coupons
          THEN /\ cc_call' = [op |-> "save", inst |-> i, raised |-> "StripeError"]
               /\ UNCHANGED <<corporate_codes, stripe_coupons, cc_inst>>
          ELSE /\ inst.pk = None =>
                     Cardinality(DOMAIN corporate_codes) < Len(CorporateCodePks)
               /\ stripe_coupons' =
                     [x \in DOMAIN stripe_coupons \cup {inst.code} |->
                        IF x = inst.code THEN Coupon(inst) ELSE stripe_coupons[x]]
               /\ IF \E o \in DOMAIN corporate_codes :
                        o # pk /\ corporate_codes[o].code = inst.code
                  THEN /\ cc_call' = [op |-> "save", inst |-> i, raised |-> "IntegrityError"]
                       /\ UNCHANGED <<corporate_codes, cc_inst>>
                  ELSE /\ cc_call' = [op |-> "save", inst |-> i, raised |-> ""]
                       /\ corporate_codes' =
                             [x \in DOMAIN corporate_codes \cup {pk} |->
                                IF x = pk THEN row ELSE corporate_codes[x]]
                       /\ cc_inst' = [cc_inst EXCEPT ![i].pk = pk]
    /\ UNCHANGED othersOfCorporateCode

\* ------------------------------------------------------------------ Spec

vars == <<boxVars, loc_inst, planVars, sub_call, ccVars>>

\* A database holding one plan, NumSubscriptions subscriptions (with or
\* without the plan) and NumLocations locations of either service; no
\* container has moved and nothing has been counted yet.
Init ==
    /\ plans = [p \in PlanIds |->
            [name |-> "Basic", amount |-> 1000, available |-> TRUE,
             number_of_boxes |-> MaxBoxes, stripe_id |-> PlanStripeIds[1]]]
    /\ stripe_plans = [sid \in {PlanStripeIds[1]} |-> [name |-> "Basic", amount |-> 1000]]
    /\ plan_inst = [i \in PlanInstIds |-> NoPlanInstance]
    /\ plan_call = NoPlanCall
    /\ subscriptions = [s \in SubIds |->
            [plan |-> IF s = "sub1" THEN PlanPks[1] ELSE None,
             stripe_id |-> None, stripe_status |-> "active", ends_at |-> <<>>]]
    /\ sub_call = NoSubCall
    /\ corporate_codes = <<>>
    /\ stripe_coupons = <<>>
    /\ cc_inst = [i \in CorporateCodeInstIds |-> NoCorporateCode]
    /\ cc_call = NoCorporateCodeCall
    /\ locations = [l \in LocIds |->
            [code |-> InitialCode[l],
             service |-> IF l = LocPks[1] THEN CHECKOUT ELSE CHECKIN]]
    /\ loc_inst = [i \in LocInstIds |-> NoInstance]
    /\ tags = {}
    /\ stock_counts = {}
    /\ now = 1
    /\ next_pk = [tag |-> 1, stock_count |-> 1]
    /\ requests = [r \in ReqIds |-> IdleRequest]
    /\ estimate = NoEstimate

\* Sequential use: every model method runs to its end before the next.
Next ==
    \/ \E s \in SubIds, l \in LocIds, n \in 1..MaxN : tag_location(s, l, n)
    \/ \E s \in SubIds, l \in LocIds, n \in 1..MaxN : CheckedTagLocation(s, l, n)
    \/ \E l \in LocIds, count \in Counts : set_stock(l, count)
    \/ \E l \in LocIds : get_estimated_stock(l)
    \/ \E l \in LocIds : DeleteLocation(l)
    \/ \E s \in SubIds : DeleteSubscription(s)

Spec == Init /\ [][Next]_vars

\* Sequential use in which tag_location is only ever called right after
\* can_tag_location returned True; locations are counted, recounted, given
\* another service and deleted in between, and subscriptions are deleted.
NextChecked ==
    \/ \E s \in SubIds, l \in LocIds, n \in 1..MaxN : CheckedTagLocation(s, l, n)
    \/ \E l \in LocIds, count \in Counts : set_stock(l, count)
    \/ \E l \in LocIds : get_estimated_stock(l)
    \/ \E l \in LocIds, service \in SERVICE_CHOICES : SaveLocationService(l, service)
    \/ \E l \in LocIds : DeleteLocation(l)
    \/ \E s \in SubIds : DeleteSubscription(s)

SpecChecked == Init /\ [][NextChecked]_vars

\* Concurrent handlers, each checking can_tag_location and then tagging.
NextRace ==
    \/ \E r \in ReqIds, s \in SubIds, l \in LocIds, n \in 1..MaxN : CanTagLocation(r, s, l, n)
    \/ \E r \in ReqIds : TagLocationCreate(r)
    \/ \E r \in ReqIds : Return(r)

SpecRace == Init /\ [][NextRace]_vars

\* Concurrent handlers creating and saving Location instances.
NextLocation ==
    \/ \E i \in LocInstIds, code \in Codes \cup {""}, service \in SERVICE_CHOICES :
            NewLocation(i, code, service)
    \/ \E i \in LocInstIds, l \in DOMAIN locations : LoadLocation(i, l)
    \/ \E i \in LocInstIds, code \in Codes \cup {""} : AssignCode(i, code)
    \/ \E i \in LocInstIds : LocationSave(i)
    \/ \E i \in LocInstIds, code \in Codes : SetCode(i, code)
    \/ \E i \in LocInstIds : SuperSave(i)

SpecLocation == Init /\ [][NextLocation]_vars

\* Plan instances created, loaded, edited, saved and deleted.
NextPlan ==
    \/ \E i \in PlanInstIds, name \in PlanNames, amount \in Amounts : NewPlan(i, name, amount)
    \/ \E i \in PlanInstIds, p \in DOMAIN plans : from_db(i, p)
    \/ \E i \in PlanInstIds, name \in PlanNames, amount \in Amounts : AssignPlan(i, name, amount)
    \/ \E i \in PlanInstIds : PlanSave(i)
    \/ \E i \in PlanInstIds : PlanDelete(i)

SpecPlan == Init /\ [][NextPlan]_vars

\* Subscriptions brought up to date with the payment provider.
NextSubscription ==
    \E s \in SubIds, stripe_subscription \in StripeSubs, force \in BOOLEAN :
        update_from_stripe_sub(s, stripe_subscription, force)

SpecSubscription == Init /\ [][NextSubscription]_vars

\* Corporate codes created, loaded, edited and saved.
NextCorporateCode ==
    \/ \E i \in CorporateCodeInstIds, company_name \in CompanyNames,
          code \in CodeValues, amount_off \in AmountsOff :
            NewCorporateCode(i, company_name, code, amount_off)
    \/ \E i \in CorporateCodeInstIds, pk \in DOMAIN corporate_codes :
            LoadCorporateCode(i, pk)
    \/ \E i \in CorporateCodeInstIds, company_name \in CompanyNames,
          code \in CodeValues, amount_off \in AmountsOff :
            AssignCorporateCode(i, company_name, code, amount_off)
    \/ \E i \in CorporateCodeInstIds : CorporateCodeSave(i)

SpecCorporateCode == Init /\ [][NextCorporateCode]_vars

\* ================================================================ claims

ServiceOf(t) == locations[t.location].service

TagsOf(s) == {t \in tags : t.subscription = s}

Checkouts(s) == Cardinality({t \in TagsOf(s) : ServiceOf(t) = CHECKOUT})

Checkins(s) == Cardinality({t \in TagsOf(s) : ServiceOf(t) = CHECKIN})

\* C1: in every state, for every stored subscription, available_boxes is the
\* entitlement (the plan's number_of_boxes, 0 without a plan) minus the
\* number of the subscription's own tags at CHECKOUT locations plus the
\* number of its own tags at CHECKIN locations.
C1_AvailableBoxes ==
    \A s \in DOMAIN subscriptions :
        LET entitlement == IF subscriptions[s].plan = None
                           THEN 0
                           ELSE plans[subscriptions[s].plan].number_of_boxes
        IN available_boxes(s) = entitlement - (Checkouts(s) - Checkins(s))

\* C1 witness: a subscription with a plan has checked out and checked in,
\* and another subscription has tags of its own.
C1_Witness ==
    \E s \in DOMAIN subscriptions, o \in DOMAIN subscriptions :
        /\ s # o
        /\ subscriptions[s].plan # None
        /\ Checkouts(s) >= 2
        /\ Checkins(s) >= 1
        /\ TagsOf(o) # {}

\* C2: two handlers that both passed can_checkout on the same subscription
\* and are the only writers since the start have both created all their
\* tags: each asked for no more than the entitlement, and the balance is the
\* entitlement minus both amounts, whatever its sign.
C2_RaceOverdraws ==
    \A r1 \in ReqIds, r2 \in ReqIds :
        LET q1 == requests[r1]
            q2 == requests[r2]
        IN (/\ r1 # r2
            /\ q1.pc = "done" /\ q2.pc = "done"
            /\ q1.subscription = q2.subscription
            /\ locations[q1.location].service = CHECKOUT
            /\ locations[q2.location].service = CHECKOUT
            /\ now = 1 + q1.n + q2.n)
           => /\ q1.n <= number_of_boxes(q1.subscription)
              /\ q2.n <= number_of_boxes(q1.subscription)
              /\ available_boxes(q1.subscription)
                    = number_of_boxes(q1.subscription) - q1.n - q2.n

\* C2 witness: the two handlers have overdrawn the subscription.
C2_Witness ==
    \E r1 \in ReqIds, r2 \in ReqIds :
        /\ r1 # r2
        /\ requests[r1].pc = "done" /\ requests[r2].pc = "done"
        /\ requests[r1].subscription = requests[r2].subscription
        /\ locations[requests[r1].location].service = CHECKOUT
        /\ locations[requests[r2].location].service = CHECKOUT
        /\ now = 1 + requests[r1].n + requests[r2].n
        /\ available_boxes(requests[r1].subscription) < 0

\* The stock count of location l stamped last.
Latest(l) ==
    CHOOSE c \in stock_counts :
        /\ c.location = l
        /\ \A d \in stock_counts : d.location = l => d.created_at <= c.created_at

TagsSince(l) == {t \in tags : t.location = l /\ t.created_at > Latest(l).created_at}

\* C3: what get_estimated_stock has just returned for location L is c - k at
\* a CHECKOUT location and c + k otherwise, c the count of L's latest stock
\* count and k the number of tags at L stamped after it.
C3_EstimatedStock ==
    estimate.location # None =>
        LET l == estimate.location
            c == Latest(l).count
            k == Cardinality(TagsSince(l))
        IN /\ TagsSince(l) \subseteq tags
           /\ estimate.value = IF locations[l].service = CHECKOUT THEN c - k ELSE c + k

\* C3 witness: the estimate was taken at a location with a tag before its
\* latest count, a tag after it, and with a later tag at another location.
C3_Witness ==
    /\ estimate.location # None
    /\ Latest(estimate.location).count > 0
    /\ \E t \in tags : t.location = estimate.location
                       /\ t.created_at < Latest(estimate.location).created_at
    /\ \E t \in tags : t.location = estimate.location
                       /\ t.created_at > Latest(estimate.location).created_at
    /\ \E t \in tags : t.location # estimate.location
                       /\ t.created_at > Latest(estimate.location).created_at

\* C4: a call of get_estimated_stock on a location without a stock count adds
\* exactly one stock count, of count 0, for that location; on a location
\* with a stock count it changes no stored row. Neither changes a tag, a
\* location or a subscription.
C4_LazyBaseline ==
    [][\A l \in LocIds :
          estimate'.location = l =>
            /\ IF {c \in stock_counts : c.location = l} = {}
               THEN \E c \in stock_counts' :
                       /\ c \notin stock_counts
                       /\ stock_counts' = stock_counts \cup {c}
                       /\ c.location = l
                       /\ c.count = 0
               ELSE stock_counts' = stock_counts
            /\ tags' = tags
            /\ locations' = locations
            /\ subscriptions' = subscriptions
            /\ plans' = plans]_vars

\* C4 witness: get_estimated_stock has been called twice on a location that
\* had tags and no count: the location holds the single zero count, stamped
\* after a tag and before the clock's last tick.
C4_Witness ==
    /\ estimate.location # None
    /\ \E c \in stock_counts :
          /\ {d \in stock_counts : d.location = estimate.location} = {c}
          /\ c.count = 0
          /\ \E t \in tags : t.location = c.location /\ t.created_at < c.created_at
          /\ c.created_at < now - 1

\* C5 as stated: no step removes or changes a tag.
C5_TagsNeverDeleted == [][tags \subseteq tags']_vars

\* C5 as amended: a tag stays, with the same subscription, location and
\* created_at, through every step that leaves its Location and its
\* Subscription stored; it goes only with one of them.
C5_TagsKeptWhileReferentsStay ==
    [][\A t \in tags :
          (t.location \in DOMAIN locations' /\ t.subscription \in DOMAIN subscriptions')
            => t \in tags']_vars

\* C5 witness: a subscription has tagged the same location in two separate
\* calls and a location has been deleted since; the tags are all there.
C5_Witness ==
    /\ DOMAIN locations # LocIds
    /\ \E t \in tags, u \in tags :
          /\ t.subscription = u.subscription
          /\ t.location = u.location
          /\ u.created_at > t.created_at + 1

\* C6: a step that deletes no location keeps every stock count as it is, and
\* a stock count it adds is stamped after every stock count there was, so it
\* is the one the location's next estimate anchors on.
C6_StockCountsImmutable ==
    [][locations' = locations =>
          /\ stock_counts \subseteq stock_counts'
          /\ \A c \in stock_counts' \ stock_counts :
                /\ \A d \in stock_counts : d.created_at < c.created_at
                /\ LastCount(c.location)' = c]_vars

\* C6 witness: a location holds two stock counts of different count, and
\* the estimate just taken there is the later count.
C6_Witness ==
    /\ estimate.location # None
    /\ \E c \in stock_counts, d \in stock_counts :
          /\ c.location = estimate.location
          /\ d.location = estimate.location
          /\ c.count # d.count
          /\ c.created_at < d.created_at
          /\ d = Latest(estimate.location)
          /\ estimate.value = d.count

UniqueCodes(table) ==
    \A a \in DOMAIN table, b \in DOMAIN table : a # b => table[a].code # table[b].code

\* C7: after every step of any interleaving of Location saves no two stored
\* locations have the same code; a save that stores a row stores the
\* instance's code, which no other stored location has; when the code was
\* generated no other stored location had it before either; and from the
\* moment save is entered an instance that has a code keeps it.
C7_UniqueCodes ==
    [][/\ UniqueCodes(locations')
       /\ \A i \in LocInstIds :
            (/\ loc_inst[i].pc = "super_save"
             /\ loc_inst'[i].pc = "ready"
             /\ loc_inst'[i].error = "") =>
               LET pk == loc_inst'[i].pk
               IN /\ pk \in DOMAIN locations'
                  /\ locations'[pk].code = loc_inst[i].code
                  /\ loc_inst[i].code \in Codes
                  /\ \A l \in DOMAIN locations' \ {pk} :
                        locations'[l].code # loc_inst[i].code
                  /\ loc_inst[i].generated =>
                        \A l \in DOMAIN locations \ {pk} :
                            locations[l].code # loc_inst[i].code
       /\ \A i \in LocInstIds :
            (loc_inst[i].pc \in {"set_code", "super_save"} /\ loc_inst[i].code # "")
               => loc_inst'[i].code = loc_inst[i].code]_vars

\* C7 witness: two instances saved without a code drew the same code; one is
\* stored under it, as a new row, and the other save ended in IntegrityError.
C7_Witness ==
    \E i \in LocInstIds, j \in LocInstIds :
        /\ i # j
        /\ loc_inst[i].generated /\ loc_inst[j].generated
        /\ loc_inst[i].code = loc_inst[j].code
        /\ loc_inst[i].pc = "ready" /\ loc_inst[i].error = ""
        /\ loc_inst[i].pk \in DOMAIN locations
        /\ locations[loc_inst[i].pk].code = loc_inst[i].code
        /\ loc_inst[j].pc = "ready" /\ loc_inst[j].error = "IntegrityError"
        /\ loc_inst[j].pk = None
        /\ Cardinality(DOMAIN locations) = Len(LocPks)

\* C8: a call of Plan.save or Plan.delete on an instance loaded from the
\* database that has a stripe_id and whose amount differs from the loaded
\* amount raises CannotChangeException and changes neither the Plan table
\* nor the payment provider's plans.
C8_AmountImmutable ==
    [][\A i \in PlanInstIds :
          (/\ plan_call'.op \in {"save", "delete"}
           /\ plan_call'.inst = i
           /\ plan_inst[i].has_loaded_values
           /\ plan_inst[i].stripe_id # None
           /\ plan_inst[i].amount # plan_inst[i].loaded_values.amount)
          => /\ plan_call'.raised = "CannotChangeException"
             /\ plans' = plans
             /\ stripe_plans' = stripe_plans]_vars

\* C8 witness: Plan.delete has just raised CannotChangeException on a loaded
\* instance whose amount and name were both edited: the stored row is still
\* available with the old amount and name, and so is the provider's plan.
C8_Witness ==
    /\ plan_call.op = "delete"
    /\ plan_call.raised = "CannotChangeException"
    /\ LET inst == plan_inst[plan_call.inst]
       IN /\ inst.has_loaded_values
          /\ inst.available = FALSE
          /\ plans[inst.pk].available = TRUE
          /\ plans[inst.pk].amount # inst.amount
          /\ plans[inst.pk].name # inst.name
          /\ stripe_plans[inst.stripe_id].name # inst.name
          /\ stripe_plans[inst.stripe_id].amount = plans[inst.pk].amount

\* C9: a call of update_from_stripe_sub without force on a subscription that
\* has a stripe_id raises SubscriptionUpdateException and leaves the stored
\* stripe_id, stripe_status and ends_at as they were; any other call raises
\* nothing and stores the provider's id and status and, as ends_at, its
\* current period end plus 3 days. No call touches another subscription.
C9_UpdateFromStripeSub ==
    [][\A s \in SubIds :
          (sub_call'.op = "update_from_stripe_sub" /\ sub_call'.subscription = s) =>
             /\ \A o \in SubIds \ {s} : subscriptions'[o] = subscriptions[o]
             /\ subscriptions'[s].plan = subscriptions[s].plan
             /\ IF subscriptions[s].stripe_id \notin {None, ""} /\ ~sub_call'.force
                THEN /\ sub_call'.raised = "SubscriptionUpdateException"
                     /\ subscriptions'[s] = subscriptions[s]
                ELSE /\ sub_call'.raised = ""
                     /\ subscriptions'[s].stripe_id = sub_call'.stripe_id
                     /\ subscriptions'[s].stripe_status = sub_call'.status
                     /\ subscriptions'[s].ends_at = <<sub_call'.current_period_end + 3>>]_vars

\* C9 witness: a forced update has replaced the provider subscription of a
\* subscription, and an unforced call on the other subscription, which has
\* one too, has just been refused.
C9_Witness ==
    /\ sub_call.raised = "SubscriptionUpdateException"
    /\ ~sub_call.force
    /\ subscriptions[sub_call.subscription].stripe_id = "sub_A"
    /\ sub_call.stripe_id = "sub_B"
    /\ sub_call.status # subscriptions[sub_call.subscription].stripe_status
    /\ <<sub_call.current_period_end + 3>> # subscriptions[sub_call.subscription].ends_at
    /\ \E o \in SubIds \ {sub_call.subscription} :
          /\ subscriptions[o].stripe_id = "sub_B"
          /\ subscriptions[o].ends_at = <<43>>

\* C10: no step removes or changes a stored corporate code; a save of an
\* instance that has a pk raises nothing and changes neither the table nor
\* the provider's coupons; every stored code has a coupon at the provider,
\* of the amount the row was first saved with; and a coupon, once created,
\* is neither created again nor changed.
C10_CodesNotEdited ==
    [][/\ \A pk \in DOMAIN corporate_codes :
             pk \in DOMAIN corporate_codes' /\ corporate_codes'[pk] = corporate_codes[pk]
       /\ \A i \in CorporateCodeInstIds :
             (cc_call'.op = "save" /\ cc_call'.inst = i /\ cc_inst[i].pk # None) =>
                /\ cc_call'.raised = ""
                /\ corporate_codes' = corporate_codes
                /\ stripe_coupons' = stripe_coupons
       /\ \A pk \in DOMAIN corporate_codes' :
             /\ corporate_codes'[pk].code \in DOMAIN stripe_coupons'
             /\ stripe_coupons'[corporate_codes'[pk].code].amount_off
                   = corporate_codes'[pk].amount_off * 100
       /\ \A id \in DOMAIN stripe_coupons :
             id \in DOMAIN stripe_coupons' /\ stripe_coupons'[id] = stripe_coupons[id]]_vars

\* C10 witness: save has just returned on an instance of a stored row whose
\* company_name, code and amount_off were all edited; the row is as it was
\* saved first, and the provider has no coupon for the edited code.
C10_Witness ==
    /\ cc_call.op = "save"
    /\ cc_call.raised = ""
    /\ LET inst == cc_inst[cc_call.inst]
       IN /\ inst.pk \in DOMAIN corporate_codes
          /\ corporate_codes[inst.pk].company_name # inst.company_name
          /\ corporate_codes[inst.pk].code # inst.code
          /\ corporate_codes[inst.pk].amount_off # inst.amount_off
          /\ inst.code \notin DOMAIN stripe_coupons
          /\ corporate_codes[inst.pk].code \in DOMAIN stripe_coupons

\* The balance of subscription s is within its entitlement.
BalanceInRange(s) ==
    /\ 0 <= available_boxes(s)
    /\ available_boxes(s) <= number_of_boxes(s)

\* Every location subscription s has a tag at is still stored after the step,
\* with the service it had before it.
TaggedLocationsKept(s) ==
    \A t \in TagsOf(s) :
        /\ t.location \in DOMAIN locations'
        /\ locations'[t.location].service = locations[t.location].service

\* C11 as stated: when tag_location is only ever called right after
\* can_tag_location returned True, one call at a time, every stored
\* subscription has 0 <= available_boxes <= number_of_boxes in every state
\* between calls.
C11_BalanceAlwaysInRange == \A s \in DOMAIN subscriptions : BalanceInRange(s)

\* C11 (amended): when tag_location is only ever called right after
\* can_tag_location returned True, one call at a time, the balance of a
\* subscription with a fixed plan starts within 0..number_of_boxes and no step
\* takes it out of that range, unless the step deletes a location the
\* subscription has tags at or gives such a location another service.
C11_BalanceInRangeWhileLocationsKept ==
    /\ \A s \in DOMAIN subscriptions : BalanceInRange(s)
    /\ [][\A s \in DOMAIN subscriptions \cap DOMAIN subscriptions' :
            (/\ BalanceInRange(s)
             /\ number_of_boxes(s)' = number_of_boxes(s)
             /\ TaggedLocationsKept(s))
                => BalanceInRange(s)']_vars

\* C11 witness: a subscription has taken boxes out and brought some back,
\* every call checked, with every location still stored under the service
\* it started with; at least one box is still out.
C11_Witness ==
    /\ DOMAIN locations = LocIds
    /\ \A l \in LocIds :
          locations[l].service = (IF l = LocPks[1] THEN CHECKOUT ELSE CHECKIN)
    /\ \E s \in DOMAIN subscriptions :
          /\ Checkouts(s) >= 2
          /\ Checkins(s) >= 1
          /\ available_boxes(s) < number_of_boxes(s)
          /\ BalanceInRange(s)

====
